---- MODULE Spec2Model ----
(***************************************************************************)
(* State-machine model of camera2::ZslProcessor                            *)
(* (services/camera/libcameraservice/camera2/ZslProcessor.cpp).            *)
(*                                                                         *)
(* The processor keeps a circular queue of (buffer, frame metadata) pairs  *)
(* (mZslQueue, cursors mZslQueueHead / mZslQueueTail), a circular list of  *)
(* recent frame metadata (mFrameList, cursor mFrameListHead), the          *)
(* lifecycle state mState and the wake-up flag mZslBufferAvailable.  One   *)
(* worker thread (threadLoop) pulls buffers from the BufferItemConsumer;   *)
(* other threads call onFrameAvailable, onBufferReleased, pushToReprocess  *)
(* and updateStream.  Every handler body runs under mInputMutex and is one *)
(* action; the worker's acquireBuffer runs outside the mutex and is a      *)
(* separate step from the admission that follows it.                       *)
(*                                                                         *)
(* A 64-bit nanosecond timestamp is the pair <<hi, lo>> standing for       *)
(* hi * 2^32 + lo; the inputs keep 0 <= lo < 2^30, so the difference of    *)
(* two low words never leaves the 32-bit signed range.                     *)
(***************************************************************************)
EXTENDS Integers, Sequences, FiniteSets, TLC

\* ---------------------------------------------------------------- bounds
\* Depth of mZslQueue (ZslProcessor.h, kZslBufferDepth).
kZslBufferDepth == 3
\* Depth of mFrameList (ZslProcessor.h, kFrameListDepth).
kFrameListDepth == 2
\* Buffers the producer queues in a behaviour of Spec.
MaxBuffers == 2
\* Frames the metadata pipeline delivers in a behaviour of Spec.
MaxFrames == 2
\* Buffers handed to the reprocess stream in a behaviour of Spec.
MaxPushes == 2

\* ------------------------------------------------------------- constants
RUNNING == "RUNNING"
LOCKED == "LOCKED"
NO_STREAM == "NO_STREAM"
\* The id the device gives a created stream.
STREAM == "STREAM"
OK == "OK"
BAD_VALUE == "BAD_VALUE"
INVALID_OPERATION == "INVALID_OPERATION"
NO_BUFFER_AVAILABLE == "NO_BUFFER_AVAILABLE"
\* Any other failure code an external collaborator returns.
DEVICE_ERROR == "DEVICE_ERROR"
\* Result variable before the first call of pushToReprocess.
NO_CALL == "NO_CALL"
\* 1 ms in nanoseconds, the literal of the close-match test.
kMatchTolerance == 1000000

VARIABLES
    mState,               \* RUNNING | LOCKED
    mZslQueue,            \* [0..kZslBufferDepth-1 -> ZslPair]
    mZslQueueHead,
    mZslQueueTail,
    mFrameList,           \* [0..kFrameListDepth-1 -> CameraMetadata]
    mFrameListHead,
    mZslBufferAvailable,  \* wake-up flag of the worker
    mZslStreamId,         \* NO_STREAM or a stream id
    mZslReprocessStreamId,
    mZslConsumer,         \* TRUE when the BufferItemConsumer exists
    clientAlive,          \* mClient.promote() != 0
    threadPc,             \* position of the worker thread
    item,                 \* the worker's acquired BufferItem
    consumerQueue,        \* buffers queued in the consumer, oldest first
    pendingCallbacks,     \* onFrameAvailable() callbacks not yet delivered
    nextBuffer,           \* id of the next buffer the producer queues
    nextFrame,            \* id of the next frame the pipeline delivers
    releasedCount,        \* buffer id -> calls of releaseBuffer
    pushedCount,          \* buffer id -> calls of pushReprocessBuffer
    capturedCount,        \* frame id -> calls of capture
    pushResult,           \* status last returned by pushToReprocess
    absWidth,             \* width of the abs() overload the build resolves
    crashed               \* the process died on undefined behaviour

vars == <<mState, mZslQueue, mZslQueueHead, mZslQueueTail, mFrameList,
          mFrameListHead, mZslBufferAvailable, mZslStreamId,
          mZslReprocessStreamId, mZslConsumer, clientAlive, threadPc, item, consumerQueue, pendingCallbacks,
          nextBuffer, nextFrame, releasedCount, pushedCount, capturedCount,
          pushResult, absWidth, crashed>>

\* The fields the claims call "the PairSlot ring, frame history and cursors".
ringVars == <<mZslQueue, mZslQueueHead, mZslQueueTail, mFrameList,
              mFrameListHead>>

\* ------------------------------------------------------------ data types
TsZero == <<0, 0>>

\* A default-constructed BufferItem: null mGraphicBuffer, mTimestamp 0.
NoBuffer == [id |-> 0, ts |-> TsZero]
\* A CameraMetadata with no entries (isEmpty()).
EmptyMetadata == [id |-> 0, count |-> 0, ts |-> TsZero]
\* A default-constructed ZslPair.
EmptyPair == [buffer |-> NoBuffer, frame |-> EmptyMetadata]

isEmpty(metadata) == metadata.id = 0

QueueIndex == 0 .. (kZslBufferDepth - 1)
FrameIndex == 0 .. (kFrameListDepth - 1)

\* ------------------------------------------------------- 64-bit arithmetic
\* a - b on <<hi, lo>> pairs; the low word of the result is left signed.
Sub64(a, b) == <<a[1] - b[1], a[2] - b[2]>>

\* Sign of a difference d (|d[2]| < 2^30, so the high word decides unless 0).
IsNegative64(d) == d[1] < 0 \/ (d[1] = 0 /\ d[2] < 0)

\* d < n for a small non-negative literal n (n < 2^30).
Less64(d, n) == IsNegative64(d) \/ (d[1] = 0 /\ d[2] < n)

\* abs(long long): the 64-bit overload.
Abs64(d) == IF IsNegative64(d) THEN <<-d[1], -d[2]>> ELSE d

\* int abs(int): the argument is converted to int, which keeps the low 32
\* bits of the difference and drops the high word; the int result is then
\* widened to int64_t delta.
Abs32(d) == <<0, IF d[2] < 0 THEN -d[2] ELSE d[2]>>
\* ------------------------------------------------------------------ inputs
\* Sensor timestamps the producer stamps on buffers in Spec: zero (the
\* "no buffer" marker of findMatchesLocked), a base value and one 999,999 ns
\* later.
BufferTimestamps == {TsZero, <<0, 5000000>>, <<0, 5999999>>}
\* Sensor timestamps of the frames the pipeline delivers in Spec.
FrameTimestamps == {<<0, 5000000>>, <<0, 6000000>>}

\* The frames a caller can pass with id n: with ANDROID_SENSOR_TIMESTAMP
\* (count 1) or without it (count 0).
Frames(n, timestamps) ==
    {[id |-> n, count |-> 1, ts |-> t] : t \in timestamps}
        \cup {[id |-> n, count |-> 0, ts |-> TsZero]}

\* ------------------------------------------------------------ matching
\* Lines 394-405: exact equality, or abs(difference) below 1 ms.  Which
\* abs() the call resolves to is fixed by the headers of the build.
TimestampsMatch(bufferTimestamp, frameTimestamp) ==
    IF bufferTimestamp = frameTimestamp
    THEN TRUE
    ELSE LET d == Sub64(bufferTimestamp, frameTimestamp)
             delta == IF absWidth = 64 THEN Abs64(d) ELSE Abs32(d)
         IN  Less64(delta, kMatchTolerance)

\* Lines 383-406: the value of `match` for frame list entry `frame`.
FrameMatches(frame, bufferTimestamp) ==
    /\ ~isEmpty(frame)
    /\ frame.count # 0
    /\ TimestampsMatch(bufferTimestamp, frame.ts)

\* A mis-written inner loop that keeps the last j that matches.
ScanFrameListTakesLast(frames, bufferTimestamp, j) ==
    LET hits == {k \in j .. (kFrameListDepth - 1) :
                     FrameMatches(frames[k], bufferTimestamp)}
    IN  IF hits = {}
        THEN kFrameListDepth
        ELSE CHOOSE k \in hits : \A h \in hits : h <= k

\* Lines 382-411: the inner loop; the first j that matches, or
\* kFrameListDepth when the loop runs to its end.
RECURSIVE ScanFrameList(_, _, _)
ScanFrameList(frames, bufferTimestamp, j) ==
    IF j >= kFrameListDepth
    THEN kFrameListDepth
    ELSE IF FrameMatches(frames[j], bufferTimestamp)
         THEN j
         ELSE ScanFrameList(frames, bufferTimestamp, j + 1)

\* A mis-written transfer that copies the frame and leaves the list entry.
AcquireCopies(queue, frames, i, j) ==
    [queue |-> [queue EXCEPT ![i].frame = frames[j]], frames |-> frames]

\* Line 408: queueEntry.frame.acquire(frame) moves the metadata out of the
\* frame list entry, which becomes empty.
Acquire(queue, frames, i, j) ==
    [queue |-> [queue EXCEPT ![i].frame = frames[j]],
     frames |-> [frames EXCEPT ![j] = EmptyMetadata]]

\* Lines 367-413: the outer loop from queue index i on.
RECURSIVE FindMatchesFrom(_, _, _)
FindMatchesFrom(queue, frames, i) ==
    IF i >= kZslBufferDepth
    THEN [queue |-> queue, frames |-> frames]
    ELSE LET queueEntry == queue[i]
             bufferTimestamp == queueEntry.buffer.ts
         IN  IF isEmpty(queueEntry.frame) /\ bufferTimestamp # TsZero
             THEN LET j == ScanFrameList(frames, bufferTimestamp, 0)
                  IN  IF j < kFrameListDepth
                      THEN LET moved == Acquire(queue, frames, i, j)
                           IN  FindMatchesFrom(moved.queue, moved.frames, i + 1)
                      ELSE FindMatchesFrom(queue, frames, i + 1)
             ELSE FindMatchesFrom(queue, frames, i + 1)

findMatchesLocked(queue, frames) == FindMatchesFrom(queue, frames, 0)

\* ----------------------------------------------------------------- Init
\* The state the constructor leaves (lines 40-57), the worker thread
\* started and waiting, the client alive.
Init ==
    /\ mState = RUNNING
    /\ mZslQueue = [i \in QueueIndex |-> EmptyPair]
    /\ mZslQueueHead = 0
    /\ mZslQueueTail = 0
    /\ mFrameList = [j \in FrameIndex |-> EmptyMetadata]
    /\ mFrameListHead = 0
    /\ mZslBufferAvailable = FALSE
    /\ mZslStreamId = NO_STREAM
    /\ mZslReprocessStreamId = NO_STREAM
    /\ mZslConsumer = FALSE
    /\ clientAlive = TRUE
    /\ threadPc = "wait"
    /\ item = NoBuffer
    /\ consumerQueue = <<>>
    /\ pendingCallbacks = 0
    /\ nextBuffer = 1
    /\ nextFrame = 1
    /\ releasedCount = [b \in {} |-> 0]
    /\ pushedCount = [b \in {} |-> 0]
    /\ capturedCount = [f \in {} |-> 0]
    /\ pushResult = NO_CALL
    /\ absWidth = 32
    /\ crashed = FALSE

\* One more call counted for key k of a call counter.
Counted(counter, k) ==
    IF k \in DOMAIN counter
    THEN [counter EXCEPT ![k] = @ + 1]
    ELSE [x \in DOMAIN counter \cup {k} |-> IF x = k THEN 1 ELSE counter[x]]

\* Calls counted for key k.
CountOf(counter, k) == IF k \in DOMAIN counter THEN counter[k] ELSE 0

\* The outcome "the process dies" of a step with undefined behaviour.
Crash ==
    /\ crashed' = TRUE
    /\ UNCHANGED <<mState, mZslQueue, mZslQueueHead, mZslQueueTail, mFrameList,
                   mFrameListHead, mZslBufferAvailable, mZslStreamId,
                   mZslReprocessStreamId, mZslConsumer, clientAlive, threadPc,
                   item, consumerQueue, pendingCallbacks, nextBuffer, nextFrame,
                   releasedCount, pushedCount, capturedCount, pushResult, absWidth>>
\* --------------------------------------------------- producer and client
\* The hardware producer queues a buffer into the BufferItemConsumer
\* created at lines 114-121; the consumer owes its listener one
\* onFrameAvailable() callback for it.
QueueBuffer(timestamps, limit) ==
    /\ ~crashed
    /\ mZslConsumer
    /\ mZslStreamId # NO_STREAM
    /\ nextBuffer <= limit
    /\ \E t \in timestamps :
           consumerQueue' = Append(consumerQueue, [id |-> nextBuffer, ts |-> t])
    /\ pendingCallbacks' = pendingCallbacks + 1
    /\ nextBuffer' = nextBuffer + 1
    /\ UNCHANGED <<mState, mZslQueue, mZslQueueHead, mZslQueueTail, mFrameList,
                   mFrameListHead, mZslBufferAvailable, mZslStreamId,
                   mZslReprocessStreamId, mZslConsumer, clientAlive, threadPc,
                   item, nextFrame, releasedCount, pushedCount, capturedCount,
                   pushResult, absWidth, crashed>>

\* The last strong reference to the Camera2Client goes away, so that
\* mClient.promote() returns 0 from now on.
ClientDestroyed ==
    /\ ~crashed
    /\ clientAlive
    /\ clientAlive' = FALSE
    /\ UNCHANGED <<mState, mZslQueue, mZslQueueHead, mZslQueueTail, mFrameList,
                   mFrameListHead, mZslBufferAvailable, mZslStreamId,
                   mZslReprocessStreamId, mZslConsumer, threadPc, item,
                   consumerQueue, pendingCallbacks, nextBuffer, nextFrame,
                   releasedCount, pushedCount, capturedCount, pushResult, absWidth, crashed>>

\* ------------------------------------------------------------- handlers
\* A mis-written callback that flips the flag instead of setting it.
onFrameAvailableToggles ==
    /\ ~crashed
    /\ pendingCallbacks > 0
    /\ pendingCallbacks' = pendingCallbacks - 1
    /\ mZslBufferAvailable' = ~mZslBufferAvailable
    /\ UNCHANGED <<mState, mZslQueue, mZslQueueHead, mZslQueueTail, mFrameList,
                   mFrameListHead, mZslStreamId, mZslReprocessStreamId,
                   mZslConsumer, clientAlive, threadPc, item, consumerQueue,
                   nextBuffer, nextFrame, releasedCount, pushedCount,
                   capturedCount, pushResult,
                   absWidth, crashed>>

\* Lines 64-70: onFrameAvailable(), the buffer-available callback.  The
\* flag is set whether or not it was set already.
onFrameAvailable ==
    /\ ~crashed
    /\ pendingCallbacks > 0
    /\ pendingCallbacks' = pendingCallbacks - 1
    /\ mZslBufferAvailable' = TRUE
    /\ UNCHANGED <<mState, mZslQueue, mZslQueueHead, mZslQueueTail, mFrameList,
                   mFrameListHead, mZslStreamId, mZslReprocessStreamId,
                   mZslConsumer, clientAlive, threadPc, item, consumerQueue,
                   nextBuffer, nextFrame, releasedCount, pushedCount,
                   capturedCount, pushResult,
                   absWidth, crashed>>

\* A mis-written store that runs no match attempt.
StoreFrameWithoutMatch(queue, frames, head, frame) ==
    [queue |-> queue, frames |-> [frames EXCEPT ![head] = frame],
     head |-> (head + 1) % kFrameListDepth]

\* Lines 81-84: the frame replaces the entry at the write index, the write
\* index advances, and findMatchesLocked runs.
StoreFrame(queue, frames, head, frame) ==
    LET stored == [frames EXCEPT ![head] = frame]
        matched == findMatchesLocked(queue, stored)
    IN  [queue |-> matched.queue, frames |-> matched.frames,
         head |-> (head + 1) % kFrameListDepth]

\* A mis-written handler that stores the frame whatever mState is.
onFrameAvailableStoresAlways(frame) ==
    LET stored == StoreFrame(mZslQueue, mFrameList, mFrameListHead, frame)
    IN  /\ mFrameList' = stored.frames
        /\ mZslQueue' = stored.queue
        /\ mFrameListHead' = stored.head

\* Lines 79-84: the body of onFrameAvailable(frameId, frame) after the
\* timestamp has been read.
onFrameAvailableStore(frame) ==
    IF mState # RUNNING
    THEN UNCHANGED <<mFrameList, mZslQueue, mFrameListHead>>
    ELSE LET stored == StoreFrame(mZslQueue, mFrameList, mFrameListHead,
                                  frame)
         IN  /\ mFrameList' = stored.frames
             /\ mZslQueue' = stored.queue
             /\ mFrameListHead' = stored.head

\* Lines 72-85: onFrameAvailable(frameId, frame).  Line 76 reads
\* entry.data.i64[0] before any test of entry.count: for a frame without
\* ANDROID_SENSOR_TIMESTAMP that is a read through a null pointer, whose
\* value is never used; the build either drops the read or dies on it.
onFrameAvailableFrame(timestamps, limit) ==
    /\ ~crashed
    /\ nextFrame <= limit
    /\ \E frame \in Frames(nextFrame, timestamps) :
        \/ /\ onFrameAvailableStore(frame)
           /\ nextFrame' = nextFrame + 1
           /\ UNCHANGED <<mState, mZslQueueHead, mZslQueueTail,
                          mZslBufferAvailable, mZslStreamId,
                          mZslReprocessStreamId, mZslConsumer, clientAlive,
                          threadPc, item, consumerQueue, pendingCallbacks,
                          nextBuffer, releasedCount, pushedCount,
                          capturedCount, pushResult,
                          absWidth, crashed>>
        \/ /\ frame.count = 0
           /\ Crash

\* A mis-written notification that resumes only for the expected handle.
onBufferReleasedChecksHandle(state, handle, expectedHandle) ==
    IF handle = expectedHandle THEN RUNNING ELSE state

\* Lines 93-98: the value of mState after the comparison of the handles,
\* whose only effect is a log line.
onBufferReleasedState(state, handle, expectedHandle) == RUNNING

\* Lines 87-99: onBufferReleased(handle).  expectedHandle is the address of
\* a field reached through mGraphicBuffer of the tail entry, which is a null
\* pointer when that entry holds no buffer; the address is only compared
\* and logged.
onBufferReleasedCall(handle) ==
    /\ ~crashed
    /\ \/ /\ mState' = onBufferReleasedState(
                            mState, handle, mZslQueue[mZslQueueTail].buffer.id)
          /\ UNCHANGED <<mZslQueue, mZslQueueHead, mZslQueueTail, mFrameList,
                         mFrameListHead, mZslBufferAvailable, mZslStreamId,
                         mZslReprocessStreamId, mZslConsumer, clientAlive,
                         threadPc, item, consumerQueue, pendingCallbacks,
                         nextBuffer, nextFrame, releasedCount, pushedCount,
                         capturedCount, pushResult,
                         absWidth, crashed>>
       \/ /\ mZslQueue[mZslQueueTail].buffer = NoBuffer
          /\ Crash

\* The handles a caller can pass: the null handle and those of the buffers.
Handles == 0 .. MaxBuffers

onBufferReleased == \E handle \in Handles : onBufferReleasedCall(handle)
\* Sum of a call counter over all its keys.
RECURSIVE TotalOver(_, _)
TotalOver(counter, keys) ==
    IF keys = {}
    THEN 0
    ELSE LET k == CHOOSE x \in keys : TRUE
         IN  counter[k] + TotalOver(counter, keys \ {k})

Total(counter) == TotalOver(counter, DOMAIN counter)

\* A mis-written scan that keeps the last non-empty frame before head.
RECURSIVE ScanQueueTakesLast(_, _, _, _)
ScanQueueTakesLast(queue, request, index, head) ==
    IF index # head
    THEN ScanQueueTakesLast(queue,
                            IF isEmpty(queue[index].frame)
                            THEN request ELSE queue[index].frame,
                            (index + 1) % kZslBufferDepth, head)
    ELSE [request |-> request, index |-> index]

\* Lines 240-243: the scan loop of pushToReprocess.  The loop copies the
\* frame of entry `index` into `request`, then advances `index`, and stops
\* once `request` is not empty or `index` has reached the head.
RECURSIVE ScanQueue(_, _, _, _)
ScanQueue(queue, request, index, head) ==
    IF isEmpty(request) /\ index # head
    THEN ScanQueue(queue, queue[index].frame,
                   (index + 1) % kZslBufferDepth, head)
    ELSE [request |-> request, index |-> index]

\* A return of pushToReprocess before it has called the device.
pushToReprocessReturns(res) ==
    /\ pushResult' = res
    /\ UNCHANGED <<mState, mZslQueue, mZslQueueHead, mZslQueueTail, mFrameList,
                   mFrameListHead, mZslBufferAvailable, mZslStreamId,
                   mZslReprocessStreamId, mZslConsumer, clientAlive, threadPc,
                   item, consumerQueue, pendingCallbacks, nextBuffer, nextFrame,
                   releasedCount, pushedCount, capturedCount, absWidth, crashed>>

\* A mis-written submission that locks as soon as the buffer is pushed.
pushToReprocessLocksEarly(handle, request, pushOk, captureOk) ==
    /\ pushedCount' = IF pushOk THEN Counted(pushedCount, handle)
                      ELSE pushedCount
    /\ capturedCount' = IF pushOk /\ captureOk
                        THEN Counted(capturedCount, request.id)
                        ELSE capturedCount
    /\ mState' = IF pushOk THEN LOCKED ELSE mState
    /\ pushResult' = IF pushOk /\ captureOk THEN OK ELSE DEVICE_ERROR
    /\ UNCHANGED <<mZslQueue, mZslQueueHead, mZslQueueTail, mFrameList,
                   mFrameListHead, mZslBufferAvailable, mZslStreamId,
                   mZslReprocessStreamId, mZslConsumer, clientAlive, threadPc,
                   item, consumerQueue, pendingCallbacks, nextBuffer, nextFrame,
                   releasedCount, absWidth, crashed>>

\* Lines 268-283: the two device calls and the state change.  pushOk and
\* captureOk are the answers of pushReprocessBuffer and capture.
pushToReprocessSubmit(handle, request, pushOk, captureOk) ==
    /\ pushedCount' = IF pushOk THEN Counted(pushedCount, handle)
                      ELSE pushedCount
    /\ capturedCount' = IF pushOk /\ captureOk
                        THEN Counted(capturedCount, request.id)
                        ELSE capturedCount
    /\ mState' = IF pushOk /\ captureOk THEN LOCKED ELSE mState
    /\ pushResult' = IF pushOk /\ captureOk THEN OK ELSE DEVICE_ERROR
    /\ UNCHANGED <<mZslQueue, mZslQueueHead, mZslQueueTail, mFrameList,
                   mFrameListHead, mZslBufferAvailable, mZslStreamId,
                   mZslReprocessStreamId, mZslConsumer, clientAlive, threadPc,
                   item, consumerQueue, pendingCallbacks, nextBuffer, nextFrame,
                   releasedCount, absWidth, crashed>>

\* Lines 228-289: pushToReprocess(requestId).  `client == 0` returns false,
\* which is the status 0, OK.  After the scan `index` is one past the entry
\* whose frame was copied, and line 249 takes the buffer of entry `index`;
\* when that entry holds no buffer the handle is an address computed from a
\* null mGraphicBuffer (written 0 here).
pushToReprocess ==
    /\ ~crashed
    /\ IF ~clientAlive
       THEN pushToReprocessReturns(OK)
       ELSE IF mZslQueueTail = mZslQueueHead
       THEN pushToReprocessReturns(BAD_VALUE)
       ELSE LET scan == ScanQueue(mZslQueue, EmptyMetadata, mZslQueueTail,
                                  mZslQueueHead)
                request == scan.request
                handle == mZslQueue[scan.index].buffer.id
            IN  IF isEmpty(request)
                THEN pushToReprocessReturns(BAD_VALUE)
                ELSE \/ pushToReprocessReturns(INVALID_OPERATION)
                     \/ /\ Total(pushedCount) < MaxPushes
                        /\ \E pushOk \in BOOLEAN, captureOk \in BOOLEAN :
                               pushToReprocessSubmit(handle, request, pushOk,
                                                     captureOk)
                     \/ /\ handle = 0
                        /\ Crash

\* ------------------------------------------------------------ the worker
\* Lines 297-305: threadLoop leaves the wait once the flag is set, and
\* clears it.  (A timed-out wait returns true and threadLoop is entered
\* again: no change of state.)
threadLoopWait ==
    /\ ~crashed
    /\ threadPc = "wait"
    /\ mZslBufferAvailable
    /\ mZslBufferAvailable' = FALSE
    /\ threadPc' = "drain"
    /\ UNCHANGED <<mState, mZslQueue, mZslQueueHead, mZslQueueTail, mFrameList,
                   mFrameListHead, mZslStreamId, mZslReprocessStreamId,
                   mZslConsumer, clientAlive, item, consumerQueue,
                   pendingCallbacks, nextBuffer, nextFrame, releasedCount,
                   pushedCount, capturedCount, pushResult, absWidth, crashed>>

\* Lines 308-310 and 322-332: one turn of the drain loop up to the return
\* of acquireBuffer, which runs without mInputMutex.  A gone client ends
\* the thread; NO_BUFFER_AVAILABLE or any other error ends the drain.
\* `results` are the answers the consumer can give.  mZslConsumer is read
\* without the mutex and is a null pointer once deleteStream has cleared it.
processNewZslBufferAcquireOf(results) ==
    /\ ~crashed
    /\ threadPc = "drain"
    /\ \/ /\ ~clientAlive
          /\ threadPc' = "exited"
          /\ UNCHANGED <<item, consumerQueue, crashed>>
       \/ /\ clientAlive
          /\ mZslConsumer
          /\ \E res \in results :
              /\ res = OK => consumerQueue # <<>>
              /\ res = NO_BUFFER_AVAILABLE => consumerQueue = <<>>
              /\ IF res = OK
                 THEN /\ item' = Head(consumerQueue)
                      /\ consumerQueue' = Tail(consumerQueue)
                      /\ threadPc' = "admit"
                 ELSE /\ threadPc' = "wait"
                      /\ UNCHANGED <<item, consumerQueue>>
          /\ UNCHANGED crashed
       \/ /\ clientAlive
          /\ ~mZslConsumer
          /\ crashed' = TRUE
          /\ UNCHANGED <<threadPc, item, consumerQueue>>
    /\ UNCHANGED <<mState, mZslQueue, mZslQueueHead, mZslQueueTail, mFrameList,
                   mFrameListHead, mZslBufferAvailable, mZslStreamId,
                   mZslReprocessStreamId, mZslConsumer, clientAlive,
                   pendingCallbacks, nextBuffer, nextFrame, releasedCount,
                   pushedCount, capturedCount, pushResult, absWidth>>

\* acquireBuffer may answer OK, NO_BUFFER_AVAILABLE or any other error.
processNewZslBufferAcquire ==
    processNewZslBufferAcquireOf({OK, NO_BUFFER_AVAILABLE, DEVICE_ERROR})

\* A mis-written admission that overwrites the head entry of a full queue
\* without evicting the tail entry.
AdmitWithoutEviction(queue, head, tail, frames, buffer) ==
    LET written == [queue EXCEPT
                        ![head] = [buffer |-> buffer, frame |-> EmptyMetadata]]
        matched == findMatchesLocked(written, frames)
    IN  [queue |-> matched.queue, frames |-> matched.frames,
         head |-> (head + 1) % kZslBufferDepth,
         tail |-> IF (head + 1) % kZslBufferDepth = tail
                  THEN (tail + 1) % kZslBufferDepth ELSE tail,
         released |-> NoBuffer]

\* A mis-written admission that runs no match attempt.
AdmitWithoutMatch(queue, head, tail, frames, buffer) ==
    LET full == (head + 1) % kZslBufferDepth = tail
        evicted == IF full THEN [queue EXCEPT ![tail] = EmptyPair] ELSE queue
    IN  [queue |-> [evicted EXCEPT
                        ![head] = [buffer |-> buffer, frame |-> EmptyMetadata]],
         frames |-> frames,
         head |-> (head + 1) % kZslBufferDepth,
         tail |-> IF full THEN (tail + 1) % kZslBufferDepth ELSE tail,
         released |-> IF full THEN queue[tail].buffer ELSE NoBuffer]

\* A mis-written admission that evicts without resetting the tail entry.
AdmitWithoutReplace(queue, head, tail, frames, buffer) ==
    LET full == (head + 1) % kZslBufferDepth = tail
        written == [queue EXCEPT
                        ![head] = [buffer |-> buffer, frame |-> EmptyMetadata]]
        matched == findMatchesLocked(written, frames)
    IN  [queue |-> matched.queue, frames |-> matched.frames,
         head |-> (head + 1) % kZslBufferDepth,
         tail |-> IF full THEN (tail + 1) % kZslBufferDepth ELSE tail,
         released |-> IF full THEN queue[tail].buffer ELSE NoBuffer]

\* Lines 344-360: the admission of `buffer` in state RUNNING.  A full queue
\* ((head + 1) % depth = tail) first gives its tail buffer back to the
\* consumer and resets that entry.  `released` is the buffer given back,
\* NoBuffer when there was no eviction.
Admit(queue, head, tail, frames, buffer) ==
    LET full == (head + 1) % kZslBufferDepth = tail
        evicted == IF full THEN [queue EXCEPT ![tail] = EmptyPair] ELSE queue
        written == [evicted EXCEPT
                        ![head] = [buffer |-> buffer, frame |-> EmptyMetadata]]
        matched == findMatchesLocked(written, frames)
    IN  [queue |-> matched.queue, frames |-> matched.frames,
         head |-> (head + 1) % kZslBufferDepth,
         tail |-> IF full THEN (tail + 1) % kZslBufferDepth ELSE tail,
         released |-> IF full THEN queue[tail].buffer ELSE NoBuffer]

\* A mis-written admission that ignores mState.
AdmissionIgnoresState(state) == FALSE

\* Line 336: the admission decision; TRUE when the buffer is discarded.
AdmissionDiscards(state) == state = LOCKED

\* Lines 334-362: processNewZslBuffer from the lock on.  releaseBuffer is
\* called through mZslConsumer, a null pointer once deleteStream has
\* cleared it.
processNewZslBufferAdmit ==
    /\ ~crashed
    /\ threadPc = "admit"
    /\ LET admitted == Admit(mZslQueue, mZslQueueHead, mZslQueueTail,
                             mFrameList, item)
           released == IF AdmissionDiscards(mState)
                       THEN item ELSE admitted.released
       IN  IF released # NoBuffer /\ ~mZslConsumer
           THEN Crash
           ELSE /\ IF AdmissionDiscards(mState)
                   THEN UNCHANGED <<mZslQueue, mZslQueueHead, mZslQueueTail,
                                    mFrameList>>
                   ELSE /\ mZslQueue' = admitted.queue
                        /\ mZslQueueHead' = admitted.head
                        /\ mZslQueueTail' = admitted.tail
                        /\ mFrameList' = admitted.frames
                /\ releasedCount' = IF released # NoBuffer
                                    THEN Counted(releasedCount, released.id)
                                    ELSE releasedCount
                /\ item' = NoBuffer
                /\ threadPc' = "drain"
                /\ UNCHANGED <<mState, mFrameListHead, mZslBufferAvailable,
                               mZslStreamId, mZslReprocessStreamId,
                               mZslConsumer, clientAlive, consumerQueue,
                               pendingCallbacks, nextBuffer, nextFrame,
                               pushedCount, capturedCount, pushResult, absWidth, crashed>>

\* ------------------------------------------------------ stream set-up
\* Lines 101-180: updateStream(params).  sizeChanged: the stream's current
\* size differs from params; each device call may fail, and the function
\* returns at the first failure with the assignments made so far.
updateStream ==
    /\ ~crashed
    /\ clientAlive
    /\ mZslConsumer' = TRUE
    /\ \E sizeChanged \in BOOLEAN, calls \in 0 .. 5 :
        LET infoOk == mZslStreamId = NO_STREAM \/ calls >= 1
            deleteOk == infoOk /\ (mZslStreamId = NO_STREAM \/ ~sizeChanged
                                      \/ calls >= 3)
            idAfterDelete == IF mZslStreamId # NO_STREAM /\ infoOk
                                  /\ sizeChanged /\ deleteOk
                             THEN NO_STREAM ELSE mZslStreamId
            creates == deleteOk /\ idAfterDelete = NO_STREAM
        IN  /\ mZslStreamId' = IF creates /\ calls >= 4
                               THEN STREAM ELSE idAfterDelete
            /\ mZslReprocessStreamId' = IF creates /\ calls >= 5
                                        THEN STREAM ELSE mZslReprocessStreamId
    /\ UNCHANGED <<mState, mZslQueue, mZslQueueHead, mZslQueueTail, mFrameList,
                   mFrameListHead, mZslBufferAvailable, clientAlive, threadPc,
                   item, consumerQueue, pendingCallbacks, nextBuffer, nextFrame,
                   releasedCount, pushedCount, capturedCount, pushResult, absWidth, crashed>>

\* Lines 182-216: deleteStream().  calls: how many of the two device calls
\* succeed before one fails.  Clearing mZslConsumer destroys the consumer
\* with the buffers still queued in it; the entries of mZslQueue are left
\* as they are.
deleteStream ==
    /\ ~crashed
    /\ mZslStreamId # NO_STREAM
    /\ clientAlive
    /\ \E calls \in 0 .. 2 :
        /\ mZslReprocessStreamId' = IF calls >= 1
                                    THEN NO_STREAM ELSE mZslReprocessStreamId
        /\ mZslStreamId' = IF calls = 2 THEN NO_STREAM ELSE mZslStreamId
        /\ mZslConsumer' = IF calls = 2 THEN FALSE ELSE mZslConsumer
        /\ consumerQueue' = IF calls = 2 THEN <<>> ELSE consumerQueue
        /\ pendingCallbacks' = IF calls = 2 THEN 0 ELSE pendingCallbacks
    /\ UNCHANGED <<mState, mZslQueue, mZslQueueHead, mZslQueueTail, mFrameList,
                   mFrameListHead, mZslBufferAvailable, clientAlive, threadPc,
                   item, nextBuffer, nextFrame, releasedCount, pushedCount,
                   capturedCount, pushResult,
                   absWidth, crashed>>

\* -------------------------------------------------------- specifications
\* Every operation of the program, the producer queueing at most
\* bufferLimit buffers and the pipeline delivering at most frameLimit frames.
Program(bufferLimit, frameLimit) ==
    \/ updateStream
    \/ deleteStream
    \/ ClientDestroyed
    \/ QueueBuffer(BufferTimestamps, bufferLimit)
    \/ onFrameAvailable
    \/ onFrameAvailableFrame(FrameTimestamps, frameLimit)
    \/ onBufferReleased
    \/ pushToReprocess
    \/ threadLoopWait
    \/ processNewZslBufferAcquire
    \/ processNewZslBufferAdmit

Next == Program(MaxBuffers, MaxFrames)

\* The whole program from construction.
Spec == Init /\ [][Next]_vars

\* The whole program with one buffer more and one frame fewer: long enough
\* for the queue to fill, evict and wrap.
NextBuffers == Program(MaxBuffers + 1, MaxFrames - 1)

SpecBuffers == Init /\ [][NextBuffers]_vars

\* The whole program with one buffer fewer and one frame more: long enough
\* for the frame list to wrap and overwrite.
NextFrames == Program(MaxBuffers - 1, MaxFrames + 1)

SpecFrames == Init /\ [][NextFrames]_vars
\* The state a successful updateStream leaves when called right after
\* construction: consumer and both streams exist.  `widths` are the abs()
\* overloads the builds under study resolve to.
Configured(widths) ==
    /\ mState = RUNNING
    /\ mZslQueue = [i \in QueueIndex |-> EmptyPair]
    /\ mZslQueueHead = 0
    /\ mZslQueueTail = 0
    /\ mFrameList = [j \in FrameIndex |-> EmptyMetadata]
    /\ mFrameListHead = 0
    /\ mZslBufferAvailable = FALSE
    /\ mZslStreamId = STREAM
    /\ mZslReprocessStreamId = STREAM
    /\ mZslConsumer = TRUE
    /\ clientAlive = TRUE
    /\ threadPc = "wait"
    /\ item = NoBuffer
    /\ consumerQueue = <<>>
    /\ pendingCallbacks = 0
    /\ nextBuffer = 1
    /\ nextFrame = 1
    /\ releasedCount = [b \in {} |-> 0]
    /\ pushedCount = [b \in {} |-> 0]
    /\ capturedCount = [f \in {} |-> 0]
    /\ pushResult = NO_CALL
    /\ absWidth \in widths
    /\ crashed = FALSE

\* Distinct non-zero timestamps: the n-th buffer gets one of two values no
\* other buffer can get.
FifoTimestamps(n) == {<<0, 2000000 * n>>, <<0, 2000000 * n + 1000000>>}

\* The buffer path alone, from the configured state: the producer queues
\* kZslBufferDepth + 1 buffers with distinct non-zero timestamps, no frame
\* is delivered and nothing is dispatched.
InitFifo == Configured({32})

NextFifo ==
    \/ QueueBuffer(FifoTimestamps(nextBuffer), kZslBufferDepth + 1)
    \/ onFrameAvailable
    \/ threadLoopWait
    \/ processNewZslBufferAcquire
    \/ processNewZslBufferAdmit

SpecFifo == InitFifo /\ [][NextFifo]_vars

\* Timestamps for the study of the match test: around a base value, the
\* differences 999,999 and 1,000,000 in both directions, and the same values
\* moved by 2^32.
MatchTimestamps ==
    {<<0, 4000000>>, <<0, 4000001>>, <<0, 5000000>>, <<0, 5999999>>,
     <<0, 6000000>>, <<1, 4000001>>, <<1, 5000000>>, <<1, 5999999>>}

\* One buffer and one frame, in either order of arrival, from the configured
\* state, for both abs() overloads.
InitMatch == Configured({32, 64})

NextMatch ==
    \/ QueueBuffer(MatchTimestamps, 1)
    \/ onFrameAvailable
    \/ onFrameAvailableFrame(MatchTimestamps, 1)
    \/ threadLoopWait
    \/ processNewZslBufferAcquire
    \/ processNewZslBufferAdmit

SpecMatch == InitMatch /\ [][NextMatch]_vars

\* Both arrival paths from the configured state with no dispatch: the
\* producer queues kZslBufferDepth + 1 buffers and the pipeline delivers
\* kFrameListDepth + 1 frames, enough for the queue to evict and wrap and
\* for the frame list to overwrite.
InitOrder == Configured({32})

NextOrder ==
    \/ QueueBuffer(BufferTimestamps, kZslBufferDepth + 1)
    \/ onFrameAvailable
    \/ onFrameAvailableFrame(FrameTimestamps, kFrameListDepth + 1)
    \/ threadLoopWait
    \/ processNewZslBufferAcquire
    \/ processNewZslBufferAdmit

SpecOrder == InitOrder /\ [][NextOrder]_vars

\* Timestamps for the study of the scan order: a buffer value with a frame
\* equal to it, one 999,999 ns before it and one 1 ns after it.
FirstBufferTimestamps == {<<0, 5000000>>, <<0, 5999999>>}

FirstFrameTimestamps == {<<0, 5000000>>, <<0, 5999999>>, <<0, 6000000>>}

\* One buffer and kFrameListDepth + 1 frames from the configured state, so
\* that the buffer can meet a full frame list whose write index has wrapped.
InitFirst == Configured({32})

NextFirst ==
    \/ QueueBuffer(FirstBufferTimestamps, 1)
    \/ onFrameAvailable
    \/ onFrameAvailableFrame(FirstFrameTimestamps, kFrameListDepth + 1)
    \/ threadLoopWait
    \/ processNewZslBufferAcquire
    \/ processNewZslBufferAdmit

SpecFirst == InitFirst /\ [][NextFirst]_vars

\* Buffers the producer queues in a behaviour of SpecLive.
MaxLiveBuffers == 3

\* The program with the client alive, no teardown and a consumer that
\* answers acquireBuffer with OK or NO_BUFFER_AVAILABLE only.
InitLive == Configured({32})

\* The steps of the worker thread.
WorkerLive ==
    \/ threadLoopWait
    \/ processNewZslBufferAcquireOf({OK, NO_BUFFER_AVAILABLE})
    \/ processNewZslBufferAdmit

NextLive ==
    \/ QueueBuffer(BufferTimestamps, MaxLiveBuffers)
    \/ onFrameAvailable
    \/ onFrameAvailableFrame(FrameTimestamps, 1)
    \/ onBufferReleased
    \/ pushToReprocess
    \/ WorkerLive

\* Fair scheduling: a worker thread that can take a step eventually takes
\* one (the wait at lines 299-303 returns once the flag is set), and the
\* consumer eventually delivers each callback it owes its listener.
SpecLive ==
    /\ InitLive
    /\ [][NextLive]_vars
    /\ WF_vars(WorkerLive)
    /\ WF_vars(onFrameAvailable)

\* ------------------------------------------------ vocabulary of the claims
\* Entries between tail and head, by their distance from the tail.
Distance(i) == (i - mZslQueueTail + kZslBufferDepth) % kZslBufferDepth

InRing(i) == Distance(i) < Distance(mZslQueueHead)

\* A complete pair: an entry of the ring that holds frame metadata.
IsComplete(i) == InRing(i) /\ ~isEmpty(mZslQueue[i].frame)

\* The oldest complete pair: no complete pair lies between the tail and it.
IsOldestComplete(i) ==
    /\ IsComplete(i)
    /\ \A k \in QueueIndex : IsComplete(k) => Distance(i) <= Distance(k)

\* Buffer handle b is accepted by pushReprocessBuffer in this step.
Pushes(b) == CountOf(pushedCount', b) > CountOf(pushedCount, b)

\* Frame f is accepted by capture in this step.
Captures(f) == CountOf(capturedCount', f) > CountOf(capturedCount, f)

\* Buffer b is given back to the consumer in this step.
Releases(b) == CountOf(releasedCount', b) > CountOf(releasedCount, b)

\* This step is a call of pushToReprocess that returns OK having submitted.
PushSucceeds ==
    /\ pushToReprocess
    /\ pushResult' = OK
    /\ \E f \in DOMAIN capturedCount' : Captures(f)

\* ---------------------------------------------------------------- C1
\* C1: whenever pushToReprocess succeeds, the buffer handle given to
\* pushReprocessBuffer and the metadata given to capture come from the same
\* entry of mZslQueue, the selected complete pair.
C1_SamePairSlot ==
    [][PushSucceeds =>
          \A b \in DOMAIN pushedCount', f \in DOMAIN capturedCount' :
              (Pushes(b) /\ Captures(f)) =>
                  \E i \in QueueIndex : /\ IsComplete(i)
                                        /\ mZslQueue[i].frame.id = f
                                        /\ mZslQueue[i].buffer.id = b]_vars

\* ---------------------------------------------------------------- C2
\* C2: while mState is LOCKED (after a successful pushToReprocess and before
\* the next onBufferReleased) no step submits a buffer to the reprocess
\* stream.
C2_NoPushWhileLocked ==
    [][mState = LOCKED => pushedCount' = pushedCount]_vars
Holders(f) ==
    Cardinality({j \in FrameIndex : mFrameList[j].id = f})
        + Cardinality({i \in QueueIndex : mZslQueue[i].frame.id = f})

\* C7: a metadata record is paired with at most one buffer.  In every state
\* each delivered frame is held in at most one place, so once it is in a
\* queue entry it is no longer in the frame list; and in every step a frame
\* held by a queue entry stays with the same buffer, and a frame enters a
\* queue entry only from the frame list or as the frame just delivered.
C7_NoDoublePair ==
    /\ [](\A f \in 1 .. (nextFrame - 1) : Holders(f) <= 1)
    /\ [][\A k \in QueueIndex :
             LET f == mZslQueue'[k].frame.id
             IN  f # 0 =>
                    /\ \A i \in QueueIndex :
                           mZslQueue[i].frame.id = f =>
                               mZslQueue'[k].buffer.id = mZslQueue[i].buffer.id
                    /\ \/ \E i \in QueueIndex : mZslQueue[i].frame.id = f
                       \/ \E j \in FrameIndex : mFrameList[j].id = f
                       \/ f = nextFrame]_vars

\* Reached when a frame is paired with one buffer while a second buffer
\* whose timestamp also matches it sits unpaired in the ring.
C7_Witness ==
    \E i, k \in QueueIndex :
        /\ i # k
        /\ IsComplete(i)
        /\ InRing(k)
        /\ isEmpty(mZslQueue[k].frame)
        /\ mZslQueue[k].buffer.ts # TsZero
        /\ TimestampsMatch(mZslQueue[k].buffer.ts, mZslQueue[i].frame.ts)

\* ---------------------------------------------------------------- C9
\* C9: a call of pushToReprocess that fails commits nothing.  With the
\* client alive, a call made with no complete pair in the ring returns
\* BAD_VALUE, and a call that does not get its request accepted by capture
\* returns an error; every call that returns an error leaves mState, the
\* queue, the frame list and the cursors as they were.
C9_FailureCommitsNothing ==
    [][(pushToReprocess /\ ~crashed') =>
          /\ (clientAlive /\ ~(\E i \in QueueIndex : IsComplete(i)))
                 => pushResult' = BAD_VALUE
          /\ (clientAlive /\ capturedCount' = capturedCount)
                 => pushResult' \in {BAD_VALUE, INVALID_OPERATION, DEVICE_ERROR}
          /\ pushResult' # OK
                 => /\ mState' = mState
                    /\ UNCHANGED ringVars]_vars

\* Reached after a call whose buffer was accepted by the reprocess stream
\* and whose request was refused by capture.
C9_Witness ==
    /\ pushResult = DEVICE_ERROR
    /\ mState = RUNNING
    /\ Total(pushedCount) = 1
    /\ Total(capturedCount) = 0
    /\ \E i \in QueueIndex : IsComplete(i)

\* ---------------------------------------------------------------- C10
\* C10: every buffer leaves the component exactly one way, pushed to the
\* reprocess stream at most once or released to the consumer at most once,
\* never both; every frame is submitted to capture at most once; and a pair
\* whose frame has been submitted is no longer in the ring.
C10_ExactlyOnce ==
    /\ \A b \in 1 .. (nextBuffer - 1) :
           CountOf(pushedCount, b) + CountOf(releasedCount, b) <= 1
    /\ \A f \in 1 .. (nextFrame - 1) : CountOf(capturedCount, f) <= 1
    /\ \A i \in QueueIndex :
           IsComplete(i) => CountOf(capturedCount, mZslQueue[i].frame.id) = 0
\* ---------------------------------------------------------------- C5
\* C5: a buffer the worker brings to the admission decision while mState is
\* LOCKED is given back to the consumer and never written into the ring
\* (queue, head, tail and frame list unchanged); once onBufferReleased has
\* set mState back to RUNNING, the buffer brought to the decision is written
\* into the entry at the head and the head advances.
C5_LockedSuppressesAdmission ==
    [][(processNewZslBufferAdmit /\ ~crashed') =>
          IF mState = LOCKED
          THEN /\ UNCHANGED ringVars
               /\ Releases(item.id)
               /\ \A i \in QueueIndex : mZslQueue'[i].buffer.id # item.id
          ELSE /\ mZslQueue'[mZslQueueHead].buffer = item
               /\ mZslQueueHead' = (mZslQueueHead + 1) % kZslBufferDepth]_vars

\* Reached when buffer 1 was admitted and dispatched, buffer 2 was discarded
\* while LOCKED (released with buffer 1, the tail, still in the ring), and
\* after onBufferReleased buffer 3 has been admitted.
C5_Witness ==
    /\ mState = RUNNING
    /\ Total(pushedCount) = 1
    /\ CountOf(releasedCount, 2) = 1
    /\ mZslQueue[0].buffer.id = 1
    /\ mZslQueue[1].buffer.id = 3
    /\ mZslQueueTail = 0
    /\ mZslQueueHead = 2

\* ---------------------------------------------------------------- C8
\* This step is a call of onFrameAvailable(frameId, frame) that returns.
Records == nextFrame' = nextFrame + 1

\* After this step the frame just delivered sits at the old write index of
\* the frame list, or in a queue entry that had a buffer and no frame.
StoredAtWriteIndex ==
    \/ mFrameList'[mFrameListHead].id = nextFrame
    \/ /\ isEmpty(mFrameList'[mFrameListHead])
       /\ \E i \in QueueIndex : /\ mZslQueue'[i].frame.id = nextFrame
                                /\ isEmpty(mZslQueue[i].frame)
                                /\ mZslQueue'[i].buffer = mZslQueue[i].buffer

\* After this step the frame that was at the old write index is destroyed.
OverwroteOldFrame ==
    LET old == mFrameList[mFrameListHead].id
    IN  old # 0 => /\ \A j \in FrameIndex : mFrameList'[j].id # old
                   /\ \A i \in QueueIndex : mZslQueue'[i].frame.id # old

\* After this step a match attempt has run: no entry with a buffer and no
\* frame is left beside a frame list record that matches it.
MatchAttemptRan ==
    \A i \in QueueIndex, j \in FrameIndex :
        ~ /\ isEmpty(mZslQueue'[i].frame)
          /\ mZslQueue'[i].buffer.ts # TsZero
          /\ FrameMatches(mFrameList'[j], mZslQueue'[i].buffer.ts)

RingBuffers == {mZslQueue[i].buffer.id : i \in {k \in QueueIndex : InRing(k)}}

\* Every queued buffer has gone through the admission.
AllAdmitted(n) ==
    /\ nextBuffer = n + 1
    /\ consumerQueue = <<>>
    /\ item = NoBuffer
    /\ threadPc # "admit"

\* C3 as stated: after kZslBufferDepth + 1 admissions from an empty ring the
\* ring holds exactly the kZslBufferDepth most recent buffers and exactly
\* the oldest buffer has been released, once.
C3_KeepsDepthBuffers ==
    AllAdmitted(kZslBufferDepth + 1) =>
        /\ RingBuffers = 2 .. (kZslBufferDepth + 1)
        /\ DOMAIN releasedCount = {1}
        /\ CountOf(releasedCount, 1) = 1

\* C3 as amended: the ring holds exactly the kZslBufferDepth - 1 most recent
\* buffers, all other entries are empty, and exactly the two oldest buffers
\* have been released, once each.
C3_KeepsDepthMinusOne ==
    AllAdmitted(kZslBufferDepth + 1) =>
        /\ RingBuffers = 3 .. (kZslBufferDepth + 1)
        /\ \A i \in QueueIndex : ~InRing(i) => mZslQueue[i] = EmptyPair
        /\ DOMAIN releasedCount = {1, 2}
        /\ CountOf(releasedCount, 1) = 1
        /\ CountOf(releasedCount, 2) = 1

\* Reached once the last of the kZslBufferDepth + 1 buffers is admitted.
C3_Witness ==
    /\ AllAdmitted(kZslBufferDepth + 1)
    /\ mState = RUNNING
    /\ \E i \in QueueIndex : mZslQueue[i].buffer.id = kZslBufferDepth + 1

\* ---------------------------------------------------------------- C4
\* |t_b - t_m| < 1,000,000 on the full 64-bit values.  The low words of the
\* inputs differ by less than 2^30, so timestamps with different high words
\* are at least 2^32 - 2^30 apart.
WithinTolerance(bufferTimestamp, frameTimestamp) ==
    /\ bufferTimestamp[1] = frameTimestamp[1]
    /\ bufferTimestamp[2] - frameTimestamp[2] < kMatchTolerance
    /\ frameTimestamp[2] - bufferTimestamp[2] < kMatchTolerance

\* C4: once a buffer with non-zero timestamp t_b and a frame with timestamp
\* t_m have both arrived, and so a match attempt has run on them, they are
\* paired if and only if t_b = t_m or |t_b - t_m| < 1,000,000.
C4_PairsIffWithinTolerance ==
    LET buffer == mZslQueue[0].buffer
        paired == mZslQueue[0].frame.id = 1
        frame == IF paired THEN mZslQueue[0].frame ELSE mFrameList[0]
    IN  (buffer.id = 1 /\ buffer.ts # TsZero /\ frame.id = 1 /\ frame.count = 1)
            => (paired <=> WithinTolerance(buffer.ts, frame.ts))

\* ---------------------------------------------------------------- C11
\* This step is a teardown: deleteStream (which is all the destructor,
\* lines 59-62, calls) destroys the consumer.
TearsDown == deleteStream /\ mZslConsumer /\ ~mZslConsumer'

\* Buffer b has left the component: given back to the consumer or accepted
\* by the reprocess stream.
HasLeft(b) == CountOf(releasedCount', b) + CountOf(pushedCount', b) > 0

\* C11: a teardown gives every buffer still held by a queue entry back to
\* the consumer, so that after it no admitted buffer is left neither
\* released nor dispatched.
C11_TeardownReleasesBuffers ==
    [][TearsDown =>
          \A i \in QueueIndex :
              mZslQueue'[i].buffer # NoBuffer
                  => HasLeft(mZslQueue'[i].buffer.id)]_vars

\* ---------------------------------------------------------------- C12
\* C12: every call of onBufferReleased that returns, whatever handle it is
\* given and whether mState is RUNNING or LOCKED, sets mState to RUNNING and
\* leaves the queue, the frame list and the three cursors as they were; and
\* in every state the call can return so for each handle.
C12_AnyReleaseResumes ==
    /\ [][(onBufferReleased /\ ~crashed') =>
             /\ mState' = RUNNING
             /\ UNCHANGED ringVars]_vars
    /\ [](~crashed =>
             \A handle \in Handles :
                 ENABLED (/\ onBufferReleasedCall(handle)
                          /\ ~crashed'
                          /\ mState' = RUNNING
                          /\ UNCHANGED ringVars))

\* Reached only through onBufferReleased: the last call of pushToReprocess
\* locked the processor (OK with the client alive), the tail entry holds
\* buffer 1 while buffer 2 was the one dispatched, and mState is RUNNING
\* again.
C12_Witness ==
    /\ clientAlive
    /\ pushResult = OK
    /\ mState = RUNNING
    /\ mZslQueue[mZslQueueTail].buffer.id = 1
    /\ CountOf(pushedCount, 2) = 1
    /\ CountOf(pushedCount, 1) = 0

\* ---------------------------------------------------------------- C13
\* The queue, frame list and cursors after admit(b) then record(m), both
\* run in state RUNNING from the current state.
AdmitThenRecord(b, m) ==
    LET a == Admit(mZslQueue, mZslQueueHead, mZslQueueTail, mFrameList, b)
        r == StoreFrame(a.queue, a.frames, mFrameListHead, m)
    IN  [queue |-> r.queue, frames |-> r.frames, head |-> a.head,
         tail |-> a.tail, frameHead |-> r.head]

\* The same after record(m) then admit(b).
RecordThenAdmit(b, m) ==
    LET r == StoreFrame(mZslQueue, mFrameList, mFrameListHead, m)
        a == Admit(r.queue, mZslQueueHead, mZslQueueTail, r.frames, b)
    IN  [queue |-> a.queue, frames |-> a.frames, head |-> a.head,
         tail |-> a.tail, frameHead |-> r.head]

\* The (buffer, frame) pairs a result holds, and the frames left in its list.
PairsOf(result) ==
    {<<result.queue[i].buffer.id, result.queue[i].frame.id>> :
         i \in {k \in QueueIndex : ~isEmpty(result.queue[k].frame)}}

HistoryOf(result) ==
    {result.frames[j].id : j \in {k \in FrameIndex : ~isEmpty(result.frames[k])}}

\* The worker holds buffer `item` at the admission decision in state
\* RUNNING, and m is a frame the pipeline can deliver next whose timestamp
\* matches the buffer's.
MatchingArrivals(m) ==
    /\ ~crashed
    /\ threadPc = "admit"
    /\ mState = RUNNING
    /\ item.ts # TsZero
    /\ m.count = 1
    /\ TimestampsMatch(item.ts, m.ts)

NextDeliverable ==
    {[id |-> nextFrame, count |-> 1, ts |-> t] : t \in FrameTimestamps}

\* C13 as stated: from every reachable RUNNING state the two orders of
\* arrival of a buffer and its matching frame leave the same set of pairs in
\* the queue and the same frames in the frame list.
C13_OrderIndependent ==
    \A m \in NextDeliverable :
        MatchingArrivals(m) =>
            /\ PairsOf(AdmitThenRecord(item, m)) = PairsOf(RecordThenAdmit(item, m))
            /\ HistoryOf(AdmitThenRecord(item, m))
                   = HistoryOf(RecordThenAdmit(item, m))

\* No other candidate: no entry of the queue without a frame has a buffer
\* whose timestamp matches m, and no frame of the list matches buffer b.
OnlyCandidates(b, m) ==
    /\ \A i \in QueueIndex :
           ~ /\ isEmpty(mZslQueue[i].frame)
             /\ mZslQueue[i].buffer.ts # TsZero
             /\ TimestampsMatch(mZslQueue[i].buffer.ts, m.ts)
    /\ \A j \in FrameIndex : ~FrameMatches(mFrameList[j], b.ts)

\* C13 as amended: when the buffer is the only candidate for the frame and
\* the frame the only candidate for the buffer, the two orders leave the
\* same queue, the same frame list and the same cursors, with the buffer and
\* the frame paired in the entry at the old head.
C13_OrderIndependentWhenUnique ==
    \A m \in NextDeliverable :
        (MatchingArrivals(m) /\ OnlyCandidates(item, m)) =>
            /\ AdmitThenRecord(item, m) = RecordThenAdmit(item, m)
            /\ AdmitThenRecord(item, m).queue[mZslQueueHead]
                   = [buffer |-> item, frame |-> m]

\* Reached when the worker holds a buffer whose admission will evict the
\* tail entry, the frame list holds an unmatched frame at the write index
\* that the next frame will overwrite, and a frame matching the buffer alone
\* can be delivered next.
C13_Witness ==
    /\ (mZslQueueHead + 1) % kZslBufferDepth = mZslQueueTail
    /\ ~isEmpty(mFrameList[mFrameListHead])
    /\ \E m \in NextDeliverable :
           MatchingArrivals(m) /\ OnlyCandidates(item, m)

\* ---------------------------------------------------------------- C14
\* |t_b - t_m| <= 1,000,000 on the full 64-bit values (see WithinTolerance
\* for the high words).
WithinOneMillisecond(bufferTimestamp, frameTimestamp) ==
    /\ bufferTimestamp[1] = frameTimestamp[1]
    /\ bufferTimestamp[2] - frameTimestamp[2] <= kMatchTolerance
    /\ frameTimestamp[2] - bufferTimestamp[2] <= kMatchTolerance

\* C14: in every reachable state every queue entry that holds both a buffer
\* and a frame has buffer and frame timestamps that are equal or differ by
\* at most 1 ms.
C14_PairsWithinOneMillisecond ==
    \A i \in QueueIndex :
        (mZslQueue[i].buffer # NoBuffer /\ ~isEmpty(mZslQueue[i].frame))
            => WithinOneMillisecond(mZslQueue[i].buffer.ts, mZslQueue[i].frame.ts)

\* ---------------------------------------------------------------- C15
\* C15: a call of pushToReprocess that returns, returns OK only when a
\* buffer has been accepted by the reprocess stream, a request has been
\* accepted by capture and mState has become LOCKED; a call made with the
\* client gone returns an error.
C15_SuccessOnlyWhenSubmitted ==
    [][(pushToReprocess /\ ~crashed') =>
          /\ pushResult' = OK =>
                 /\ \E b \in DOMAIN pushedCount' : Pushes(b)
                 /\ \E f \in DOMAIN capturedCount' : Captures(f)
                 /\ mState' = LOCKED
          /\ ~clientAlive => pushResult' # OK]_vars

\* ---------------------------------------------------------------- C16
\* Buffer b sits in the consumer, queued and not yet acquired.
Queued(b) == \E k \in 1 .. Len(consumerQueue) : consumerQueue[k].id = b

\* Buffer b has been pulled by acquireBuffer.
Pulled(b) == b < nextBuffer /\ ~Queued(b)

\* C16: under fair scheduling, with the client alive and acquireBuffer
\* answering only OK or NO_BUFFER_AVAILABLE, every buffer queued in the
\* consumer is eventually pulled by the worker, however the callbacks are
\* coalesced into the flag, unless the process has died.
C16_NoBufferStranded ==
    \A b \in 1 .. MaxLiveBuffers : Queued(b) ~> (Pulled(b) \/ crashed)

\* Reached when the callbacks of two queued buffers have both been
\* delivered before the worker woke: one flag stands for two buffers.
C16_Witness ==
    /\ ~crashed
    /\ Queued(1)
    /\ Queued(2)
    /\ pendingCallbacks = 0
    /\ mZslBufferAvailable
    /\ threadPc = "wait"

\* ---------------------------------------------------------------- C17
\* This step is the worker calling acquireBuffer (line 322) or
\* releaseBuffer (lines 338, 346) through mZslConsumer.
WorkerUsesConsumer ==
    \/ processNewZslBufferAcquire /\ clientAlive
    \/ /\ processNewZslBufferAdmit
       /\ \/ AdmissionDiscards(mState)
          \/ (mZslQueueHead + 1) % kZslBufferDepth = mZslQueueTail

\* C17: in every interleaving of deleteStream with the worker, the worker
\* never calls acquireBuffer or releaseBuffer once the teardown has
\* destroyed the consumer.
C17_NoUseAfterTeardown ==
    [][WorkerUsesConsumer => mZslConsumer]_vars

\* ---------------------------------------------------------------- C18
\* Queue entry i holds a buffer with non-zero timestamp and no frame, and
\* frame list entry j holds a frame with a timestamp field within tolerance
\* of it.
UnboundCandidates(queue, frames, i, j) ==
    /\ queue[i].buffer # NoBuffer
    /\ queue[i].buffer.ts # TsZero
    /\ isEmpty(queue[i].frame)
    /\ ~isEmpty(frames[j])
    /\ frames[j].count # 0
    /\ WithinTolerance(queue[i].buffer.ts, frames[j].ts)

\* The frames held anywhere after this step.
FramesAfter ==
    {mFrameList'[j] : j \in FrameIndex}
        \cup {mZslQueue'[k].frame : k \in QueueIndex}

\* This step is a call of onFrameAvailable(frameId, frame) in state RUNNING
\* whose frame is within tolerance of a buffer waiting without a frame.
RecordsForWaitingBuffer ==
    /\ Records
    /\ mState = RUNNING
    /\ \E m \in FramesAfter :
           /\ m.id = nextFrame
           /\ \E i \in QueueIndex :
                  UnboundCandidates(
                      mZslQueue, [mFrameList EXCEPT ![mFrameListHead] = m],
                      i, mFrameListHead)

Candidates(frames, ts) ==
    {j \in FrameIndex : /\ ~isEmpty(frames[j])
                        /\ frames[j].count # 0
                        /\ WithinTolerance(ts, frames[j].ts)}

\* C19: a match attempt for a buffer-only entry with candidates in the
\* frame list binds the candidate with the lowest index, whatever the
\* distances of the timestamps, empties that entry of the list and leaves
\* every other entry of the list as it was.
C19_FirstMatchWins ==
    [][(/\ processNewZslBufferAdmit
        /\ ~crashed'
        /\ mState = RUNNING
        /\ item.ts # TsZero
        /\ Candidates(mFrameList, item.ts) # {}) =>
          LET hits == Candidates(mFrameList, item.ts)
              first == CHOOSE j \in hits : \A h \in hits : j <= h
          IN  /\ mZslQueue'[mZslQueueHead]
                     = [buffer |-> item, frame |-> mFrameList[first]]
              /\ mFrameList' = [mFrameList EXCEPT ![first] = EmptyMetadata]]_vars

\* Reached only by a match attempt with two candidates: the buffer is bound
\* to frame kFrameListDepth + 1, stored at index 0 after the write index
\* wrapped and 999,999 ns away from it, while the older frame at the last
\* index, whose timestamp equals the buffer's, is still in the list.  (Had the
\* buffer been in the queue when the older frame arrived, or been admitted
\* before the later one arrived, it would hold the older frame.)
C19_Witness ==
    \E i \in QueueIndex :
        /\ mZslQueue[i].buffer.ts = <<0, 5999999>>
        /\ mZslQueue[i].frame.id = kFrameListDepth + 1
        /\ mZslQueue[i].frame.ts = <<0, 5000000>>
        /\ isEmpty(mFrameList[0])
        /\ mFrameList[kFrameListDepth - 1].id = kFrameListDepth
        /\ mFrameList[kFrameListDepth - 1].count = 1
        /\ mFrameList[kFrameListDepth - 1].ts = mZslQueue[i].buffer.ts

\* ---------------------------------------------------------------- C20
\* C20: in every reachable state every queue entry that holds a frame also
\* holds a buffer with non-zero timestamp and lies between the tail and the
\* head; the entries outside that range hold neither buffer nor frame.
C20_RingWellFormed ==
    \A i \in QueueIndex :
        /\ ~isEmpty(mZslQueue[i].frame) =>
               /\ InRing(i)
               /\ mZslQueue[i].buffer # NoBuffer
               /\ mZslQueue[i].buffer.ts # TsZero
        /\ ~InRing(i) => mZslQueue[i] = EmptyPair

\* Reached after an eviction has moved the tail and the head has wrapped
\* to index 0: a pair sits in the ring, the evicted entry lies outside it,
\* and the pair's frame has been dispatched, which leaves the ring as it is.
C20_Witness ==
    /\ mZslQueueTail # 0
    /\ mZslQueueHead = 0
    /\ \E i \in QueueIndex :
           /\ IsComplete(i)
           /\ CountOf(capturedCount, mZslQueue[i].frame.id) = 1
    /\ CountOf(releasedCount, 1) = 1
====
